---------------------------- MODULE Spec2Model ----------------------------
(* A model of the pivot Python client: Client.request and the exception    *)
(* taxonomy (client.py, exceptions.py), the dict utilities (utils.py),     *)
(* Record and RecordSet (results.py), Field and Collection (collection.py). *)
(*                                                                         *)
(* Python values are tagged records: [t |-> "None"], [t |-> "int", n],     *)
(* [t |-> "bool", b], [t |-> "str", s] (s a sequence of tokens),           *)
(* [t |-> "dict", cls, kv] (kv a function from keys to values, cls the     *)
(* Python class of the mapping) and [t |-> "list", items].                 *)
EXTENDS Integers, Sequences, FiniteSets, TLC

VARIABLES
    name,          \* Collection.name
    definition,    \* Collection._definition
    history,       \* history of the Collection: how its definition was obtained
    call,          \* the call being made: operation, arguments, requests, outcome
    response,      \* RecordSet.response
    result_count,  \* RecordSet._result_count
    results_iter,  \* RecordSet._results_iter: [items, pos]
    yielded,       \* history: what the RecordSet has yielded since the last iter()
    row,           \* the raw row a Record is built from
    rec,           \* the Record built from it
    field          \* a Field object

vars == <<name, definition, history, call, response, result_count, results_iter,
          yielded, row, rec, field>>

---------------------------------------------------------------------------
(* Python values                                                           *)

None == [t |-> "None"]
PyInt(n) == [t |-> "int", n |-> n]
PyBool(b) == [t |-> "bool", b |-> b]
PyStr(s) == [t |-> "str", s |-> s]
PyDict(kv) == [t |-> "dict", cls |-> "dict", kv |-> kv]
PyList(items) == [t |-> "list", items |-> items]
EmptyKv == [k \in {} |-> None]

IsDict(v) == v.t = "dict"
IsList(v) == v.t = "list"

\* bool(v)
Truthy(v) ==
    CASE v.t = "None" -> FALSE
      [] v.t = "bool" -> v.b
      [] v.t = "int"  -> v.n /= 0
      [] v.t = "str"  -> v.s /= <<>>
      [] v.t = "dict" -> DOMAIN v.kv /= {}
      [] v.t = "list" -> v.items /= <<>>
      [] OTHER        -> TRUE

\* d.get(k, default) on a mapping
DictGet(d, k, default) == IF k \in DOMAIN d.kv THEN d.kv[k] ELSE default

\* The outcome of a call: it returns a value or raises an exception.
Return(v) == [kind |-> "return", value |-> v]
Raise(type, msg) == [kind |-> "raise", exc |-> [type |-> type, msg |-> msg]]
Raised(o) == o.kind = "raise"

\* The order in which the keys of a mapping are rendered by repr().
KeyOrder == <<"error", "message", "id", "fields", "name", "type",
              "result_count", "records", "a", "b">>

RECURSIVE Repr(_)
RECURSIVE ReprItems(_, _)
RECURSIVE ReprList(_, _)
\* repr(v), as a sequence of tokens
Repr(v) ==
    CASE v.t = "None" -> <<"None">>
      [] v.t = "bool" -> IF v.b THEN <<"True">> ELSE <<"False">>
      [] v.t = "int"  -> <<ToString(v.n)>>
      [] v.t = "str"  -> <<"'">> \o v.s \o <<"'">>
      [] v.t = "dict" -> <<"{">> \o ReprItems(v.kv, 1) \o <<"}">>
      [] v.t = "list" -> <<"[">> \o ReprList(v.items, 1) \o <<"]">>
      [] OTHER        -> <<"<object>">>
ReprItems(kv, i) ==
    IF i > Len(KeyOrder) THEN <<>>
    ELSE (IF KeyOrder[i] \in DOMAIN kv
          THEN <<"'", KeyOrder[i], "'", ":">> \o Repr(kv[KeyOrder[i]]) \o <<",">>
          ELSE <<>>) \o ReprItems(kv, i + 1)
ReprList(items, i) ==
    IF i > Len(items) THEN <<>>
    ELSE Repr(items[i]) \o <<",">> \o ReprList(items, i + 1)

\* '{}'.format(v): a string is rendered bare, anything else as its repr
Format(v) == IF v.t = "str" THEN v.s ELSE Repr(v)

\* a in b, for strings
IsInfix(a, b) ==
    \E i \in 0..(Len(b) - Len(a)) : SubSeq(b, i + 1, i + Len(a)) = a

\* sep.join(parts), parts a sequence of strings
RECURSIVE Join(_, _)
Join(sep, parts) ==
    IF parts = <<>> THEN <<>>
    ELSE IF Len(parts) = 1 THEN parts[1]
    ELSE parts[1] \o sep \o Join(sep, Tail(parts))

---------------------------------------------------------------------------
(* exceptions.py and client.py                                            *)

\* A transport response: a status code and the bytes of a body. The body is
\* empty (len = 0) or holds the JSON document doc.
Content(doc) == [len |-> 1, doc |-> doc]
EmptyContent == [len |-> 0]
Response(status, content) == [status_code |-> status, content |-> content]

\* response.json(): decoding an empty body fails
json(resp) ==
    IF resp.content.len = 0
    THEN Raise("ValueError", <<"Expecting", "value">>)
    ELSE Return(resp.content.doc)

\* The class attribute `description` of each HttpError class.
description(type) ==
    CASE type = "AuthenticationFailed" -> PyStr(<<"Authentication", "Failed">>)
      [] type = "NotFound"             -> PyStr(<<"Not", "Found">>)
      [] type = "ServiceUnavailable"   -> PyStr(<<"Service", "Unavailable">>)
      [] OTHER                         -> None

\* HttpError.__init__(response, body): the message of the exception
HttpErrorMessage(type, resp, body) ==
    <<"HTTP", ToString(resp.status_code), ":">> \o
    (IF IsDict(body) /\ Truthy(DictGet(body, "error", None))
     THEN Format(body.kv["error"])
     ELSE IF Truthy(description(type))
     THEN Format(description(type))
     ELSE Format(body))

HttpError(type, resp, body) == Raise(type, HttpErrorMessage(type, resp, body))

\* A classification that takes 500 itself for a generic error.
ErrorClassAbove500(status) ==
    IF status = 403 THEN "AuthenticationFailed"
    ELSE IF status = 404 THEN "NotFound"
    ELSE IF status > 500 THEN "ServiceUnavailable"
    ELSE "HttpError"

\* The error class Client.request picks for a status code >= 400.
ErrorClass(status) ==
    IF status = 403 THEN "AuthenticationFailed"
    ELSE IF status = 404 THEN "NotFound"
    ELSE IF status >= 500 THEN "ServiceUnavailable"
    ELSE "HttpError"

DEFAULT_URL == <<"http://localhost:29029">>

\* path.lstrip('/')
RECURSIVE lstrip(_)
lstrip(path) ==
    IF path /= <<>> /\ Head(path) = "/" THEN lstrip(Tail(path)) ELSE path

\* Client.make_url
make_url(path) == DEFAULT_URL \o <<"/">> \o lstrip(path)

\* method.lower()
lower(method) ==
    CASE method = "GET"    -> "get"
      [] method = "POST"   -> "post"
      [] method = "PUT"    -> "put"
      [] method = "DELETE" -> "delete"
      [] OTHER             -> method

\* What Client.request hands to the session: the session's method of that
\* name is called with the URL, the JSON body, the parameters and the headers.
Sent(method, path, data, params) ==
    [method |-> lower(method), path |-> path, url |-> make_url(path),
     json |-> data, params |-> params,
     headers |-> PyDict("Content-Type" :> PyStr(<<"application/json">>))]

\* Client.request, given the response resp the session returns
request(resp) ==
    LET Failed(body) ==
            IF Raised(body) THEN body
            ELSE HttpError(ErrorClass(resp.status_code), resp, body.value)
    IN  IF resp.status_code < 400 THEN Return(resp) ELSE Failed(json(resp))

---------------------------------------------------------------------------
(* utils.py                                                                *)

\* Keys that are byte strings, and the text each decodes to.
BytesKeys == [k \in {"b'a'", "b'b'"} |-> IF k = "b'a'" THEN "a" ELSE "b"]

\* uu(key): the key in its canonical text encoding; a text key is canonical
uu(key) == IF key \in DOMAIN BytesKeys THEN BytesKeys[key] ELSE key

\* A compact that keeps the entries whose value is truthy.
compactTruthy(inDict) ==
    IF IsDict(inDict)
    THEN Return(PyDict([k \in {x \in DOMAIN inDict.kv : Truthy(inDict.kv[x])}
                          |-> inDict.kv[k]]))
    ELSE Raise("ValueError", <<"Expected:", "dict">>)

\* compact(inDict), with the default keep_if: the entries whose value is not None
compact(inDict) ==
    IF IsDict(inDict)
    THEN Return(PyDict([k \in {x \in DOMAIN inDict.kv : inDict.kv[x] /= None}
                          |-> inDict.kv[k]]))
    ELSE Raise("ValueError", <<"Expected:", "dict">>)

\* dotdict(value): a copy of the mapping, of class dotdict
dotdict(value) == [value EXCEPT !.cls = "dotdict"]

\* isinstance(value, dotdict): Record is a subclass of dotdict
IsDotdict(value) == IsDict(value) /\ value.cls \in {"dotdict", "Record"}

\* Record.keyfn
keyfn(key) == uu(key)

\* Record.valuefn
valuefn(value) ==
    IF IsDict(value) /\ ~IsDotdict(value) THEN dotdict(value) ELSE value

\* mutate_dict(inValue, keyFn=Record.keyfn, valueFn=Record.valuefn), the one
\* way the repository calls it (keyTypes and valueTypes are None). Where two
\* keys of a mapping normalise to the same key, one of them supplies the value.
RECURSIVE mutate_dict(_)
mutate_dict(inValue) ==
    IF IsDict(inValue)
    THEN PyDict([k2 \in {keyfn(k) : k \in DOMAIN inValue.kv} |->
            LET k == CHOOSE x \in DOMAIN inValue.kv : keyfn(x) = k2
                v == valuefn(inValue.kv[k])
            IN  IF IsDict(v) THEN mutate_dict(v)
                ELSE IF IsList(v)
                THEN PyList([i \in 1..Len(v.items) |-> mutate_dict(v.items[i])])
                ELSE v])
    ELSE IF IsList(inValue) /\ Len(inValue.items) > 0
    THEN PyList([i \in 1..Len(inValue.items) |-> mutate_dict(inValue.items[i])])
    ELSE inValue

---------------------------------------------------------------------------
(* results.py: Record                                                      *)

\* Record.__init__(record). Yields the outcome (the Record, or the exception)
\* and the raw row as the constructor leaves it: `_record` is the row's own
\* `fields` mapping, so storing the id in it changes the row.
RecordInit(record) ==
    LET Built(stored, compacted) ==
            [outcome |-> IF Raised(compacted) THEN compacted
                         ELSE Return([compacted.value EXCEPT !.cls = "Record"]),
             row |-> IF "fields" \in DOMAIN record.kv
                     THEN [record EXCEPT !.kv["fields"] = stored]
                     ELSE record]
        Store(stored) == Built(stored, compact(mutate_dict(stored)))
        Fill(_record) ==
            IF "id" \notin DOMAIN record.kv
            THEN [outcome |-> Raise("KeyError", <<"'", "id", "'">>), row |-> record]
            ELSE IF ~IsDict(_record)
            THEN [outcome |-> Raise("TypeError", <<"item", "assignment">>), row |-> record]
            ELSE Store([_record EXCEPT !.kv =
                           [k \in DOMAIN _record.kv \cup {"id"} |->
                               IF k = "id" THEN record.kv["id"] ELSE _record.kv[k]]])
    IN  IF IsDict(record) /\ record.cls = "Record"
        THEN [outcome |-> Raise("ValueError", <<"Record", "cannot", "be", "given", "another", "Record">>),
              row |-> record]
        ELSE IF ~IsDict(record)
        THEN [outcome |-> Raise("AttributeError", <<"get">>), row |-> record]
        ELSE Fill(DictGet(record, "fields", PyDict(EmptyKv)))

\* obj.key by attribute access: dotdict answers with dict.get, a plain dict
\* has no such attribute
GetAttr(obj, key) ==
    IF IsDotdict(obj) THEN Return(DictGet(obj, key, None))
    ELSE Raise("AttributeError", <<key>>)

---------------------------------------------------------------------------
(* results.py: RecordSet                                                   *)

max_repr_preview == 10

\* The loop of RecordSet.records over the raw rows from row i on: each row is
\* handed to Record, which may change it; the first exception ends the loop.
RECURSIVE WrapRows(_, _, _)
WrapRows(rows, i, out) ==
    LET Wrapped(r, after) ==
            IF Raised(r.outcome) THEN [outcome |-> r.outcome, rows |-> after]
            ELSE WrapRows(after, i + 1, Append(out, r.outcome.value))
        Wrap(r) == Wrapped(r, [rows EXCEPT ![i] = r.row])
    IN  IF i > Len(rows) THEN [outcome |-> Return(PyList(out)), rows |-> rows]
        ELSE Wrap(RecordInit(rows[i]))

\* RecordSet.records on the raw response resp: the outcome and the response as
\* the access leaves it.
records(resp) ==
    LET Looped(w) ==
            [outcome |-> w.outcome,
             response |-> IF "records" \in DOMAIN resp.kv /\ IsList(resp.kv["records"])
                          THEN [resp EXCEPT !.kv["records"] = PyList(w.rows)]
                          ELSE resp]
        Loop(_results) ==
            IF IsList(_results) THEN Looped(WrapRows(_results.items, 1, <<>>))
            ELSE IF _results.t \in {"dict", "str"}
            THEN [outcome |-> Raise("AttributeError", <<"get">>), response |-> resp]
            ELSE [outcome |-> Raise("TypeError", <<"not", "iterable">>), response |-> resp]
        Got(got) == Loop(IF Truthy(got) THEN got ELSE PyList(<<>>))
    IN  Got(DictGet(resp, "records", None))

\* iter(list)
iter(list) == [items |-> list.items, pos |-> 0]

\* RecordSet.__init__(response): the outcome (the RecordSet, or the exception)
RecordSetInit(resp) ==
    LET Built(r) ==
            IF Raised(r.outcome) THEN r.outcome
            ELSE Return([t |-> "RecordSet",
                         response |-> r.response,
                         _result_count |-> resp.kv["result_count"],
                         _results_iter |-> iter(r.outcome.value)])
    IN  IF ~IsDict(resp)
        THEN Raise("ValueError", <<"RecordSet", "must", "be", "populated", "with", "a", "dict">>)
        ELSE IF "result_count" \notin DOMAIN resp.kv
        THEN Raise("KeyError", <<"'", "result_count", "'">>)
        ELSE Built(records(resp))

\* list.__getitem__(key) for an integer key
ListGetItem(list, key) ==
    LET n == Len(list.items) IN
    IF 0 <= key /\ key < n THEN Return(list.items[key + 1])
    ELSE IF -n <= key /\ key < 0 THEN Return(list.items[n + key + 1])
    ELSE Raise("IndexError", <<"list", "index", "out", "of", "range">>)

\* The preview lines of RecordSet.__repr__
RECURSIVE ReprPreview(_, _)
ReprPreview(recs, i) ==
    IF i >= max_repr_preview THEN <<>>
    ELSE (IF i < Len(recs) THEN <<"\n  ">> \o Format(recs[i + 1]) ELSE <<>>)
         \o ReprPreview(recs, i + 1)

\* RecordSet.__repr__, given the records and the result count
RecordSetRepr(recs, count) ==
    LET out == <<"<RecordSet [">> \o ReprPreview(recs, 0) \o
               (IF Len(recs) > max_repr_preview
                THEN <<"\n  truncated [", ToString(Len(recs) - max_repr_preview),
                       "more,">> \o Format(count) \o <<"total]...">>
                ELSE <<>>)
    IN  IF out[Len(out)] = "<RecordSet [" THEN out \o <<"]>">> ELSE out \o <<"\n]>">>

---------------------------------------------------------------------------
(* collection.py: Field                                                    *)

\* The attributes Field.__init__ sets before it applies the configuration.
FieldDefaults ==
    [name |-> None, type |-> None, identity |-> PyBool(FALSE), key |-> PyBool(FALSE),
     required |-> PyBool(FALSE), default |-> None, native_type |-> None]

\* Field.__init__(**config): every entry of config becomes an attribute
FieldInit(config) ==
    LET attrs == [k \in DOMAIN FieldDefaults \cup DOMAIN config |->
                     IF k \in DOMAIN config THEN config[k] ELSE FieldDefaults[k]]
    IN  IF attrs["name"] = None
        THEN Raise("ValueError", <<"Field", "name", "is", "required">>)
        ELSE IF attrs["type"] = None
        THEN Raise("ValueError", <<"Field", "type", "is", "required">>)
        ELSE Return([t |-> "Field", attrs |-> attrs])

\* An as_dict that tests `key` on its own, not as the alternative of `identity`.
AsDictKeysIndependent(f) ==
    {"name", "type"}
    \cup (IF Truthy(f.attrs["identity"]) THEN {"identity"} ELSE {})
    \cup (IF Truthy(f.attrs["key"]) THEN {"key"} ELSE {})
    \cup (IF Truthy(f.attrs["required"]) THEN {"required"} ELSE {})
    \cup (IF f.attrs["default"] /= None THEN {"default"} ELSE {})

\* The keys Field.as_dict puts in the mapping it returns.
AsDictKeys(f) ==
    {"name", "type"}
    \cup (IF Truthy(f.attrs["identity"]) THEN {"identity"}
          ELSE IF Truthy(f.attrs["key"]) THEN {"key"} ELSE {})
    \cup (IF Truthy(f.attrs["required"]) THEN {"required"} ELSE {})
    \cup (IF f.attrs["default"] /= None THEN {"default"} ELSE {})

\* Field.as_dict
as_dict(f) ==
    PyDict([k \in AsDictKeys(f) |->
               IF k \in {"identity", "key", "required"} THEN PyBool(TRUE)
               ELSE f.attrs[k]])

---------------------------------------------------------------------------
(* collection.py: Collection                                               *)

\* What a Collection operation did: the requests it handed to the session,
\* its outcome, and Collection._definition as it leaves it (stored: load has
\* assigned it).
Done(sent, outcome, defn) ==
    [sent |-> sent, outcome |-> outcome, definition |-> defn, stored |-> FALSE]

\* Collection.__init__(name, client, definition): the name the object takes
CollectionName(nm, defn) ==
    IF IsDict(defn) /\ "name" \in DOMAIN defn.kv /\ Truthy(defn.kv["name"])
    THEN defn.kv["name"]
    ELSE nm

\* '/api/collections/{}'.format(name)
CollectionPath(nm) == <<"/", "api", "/", "collections", "/">> \o Format(nm)

\* The default `params={}` and `data=None` of Client.request.
NoParams == PyDict(EmptyKv)

\* The except clauses of Collection.load, for the exception r the request
\* raised: NotFound becomes CollectionNotFound, anything else is raised again
LoadExcept(r) ==
    IF r.exc.type = "NotFound" THEN Raise("CollectionNotFound", <<>>) ELSE r

\* Collection.load
load(nm, defn, resp) ==
    LET sent == <<Sent("get", CollectionPath(nm), None, NoParams)>>
        Decoded(j) ==
            IF Raised(j) THEN Done(sent, j, defn)
            ELSE [Done(sent, Return(None), j.value) EXCEPT !.stored = TRUE]
        Answered(r) ==
            IF Raised(r) THEN Done(sent, LoadExcept(r), defn)
            ELSE Decoded(json(r.value))
    IN  Answered(request(resp))

\* Collection.definition
GetDefinition(nm, defn, resp) ==
    LET Loaded(l) ==
            IF Raised(l.outcome) THEN l ELSE [l EXCEPT !.outcome = Return(l.definition)]
    IN  IF ~Truthy(defn) THEN Loaded(load(nm, defn, resp))
        ELSE Done(<<>>, Return(defn), defn)

\* [Field(**f) for f in fs], from element i on
RECURSIVE FieldList(_, _, _)
FieldList(fs, i, out) ==
    LET Built(f) == IF Raised(f) THEN f ELSE FieldList(fs, i + 1, Append(out, f.value))
    IN  IF i > Len(fs) THEN Return(PyList(out))
        ELSE IF ~IsDict(fs[i])
        THEN Raise("TypeError", <<"argument", "must", "be", "a", "mapping">>)
        ELSE Built(FieldInit(fs[i].kv))

\* Collection.fields
GetFields(nm, defn, resp) ==
    LET Listed(d, fs) ==
            IF ~IsList(fs)
            THEN [d EXCEPT !.outcome = Raise("TypeError", <<"not", "a", "list", "of", "mappings">>)]
            ELSE [d EXCEPT !.outcome = FieldList(fs.items, 1, <<>>)]
        Defined(d) ==
            IF Raised(d.outcome) THEN d
            ELSE IF ~IsDict(d.definition)
            THEN [d EXCEPT !.outcome = Raise("AttributeError", <<"get">>)]
            ELSE Listed(d, DictGet(d.definition, "fields", PyList(<<>>)))
    IN  Defined(GetDefinition(nm, defn, resp))

\* len(v)
PyLen(v) ==
    CASE v.t = "list" -> Return(PyInt(Len(v.items)))
      [] v.t = "str"  -> Return(PyInt(Len(v.s)))
      [] v.t = "dict" -> Return(PyInt(Cardinality(DOMAIN v.kv)))
      [] OTHER        -> Raise("TypeError", <<"has", "no", "len()">>)

\* Collection.__str__
CollectionStr(nm, defn, resp) ==
    LET Counted(d, n) ==
            IF Raised(n) THEN [d EXCEPT !.outcome = n]
            ELSE [d EXCEPT !.outcome =
                      Return(PyStr(<<"<Collection">> \o Format(nm) \o <<"fields=">>
                                   \o Format(n.value) \o <<">">>))]
        Defined(d) ==
            IF Raised(d.outcome) THEN d
            ELSE IF ~IsDict(d.definition)
            THEN [d EXCEPT !.outcome = Raise("AttributeError", <<"get">>)]
            ELSE Counted(d, PyLen(DictGet(d.definition, "fields", PyList(<<>>))))
    IN  Defined(GetDefinition(nm, defn, resp))

\* Collection.query(filterstring, limit=limit), the other arguments defaulted
query(nm, defn, filterstring, limit, resp) ==
    LET lim == IF limit = PyBool(FALSE) THEN PyInt(2147483647) ELSE limit
        params == compact(PyDict([limit |-> lim, offset |-> None,
                                  sort |-> PyStr(Join(<<",">>, <<>>)),
                                  fields |-> PyStr(Join(<<",">>, <<>>)),
                                  conjunction |-> None, noexpand |-> None])).value
        sent == <<Sent("get", CollectionPath(nm) \o <<"/", "where", "/">> \o Format(filterstring),
                       None, params)>>
        Decoded(j) ==
            IF Raised(j) THEN Done(sent, j, defn)
            ELSE Done(sent, RecordSetInit(j.value), defn)
        Answered(r) == IF Raised(r) THEN Done(sent, r, defn) ELSE Decoded(json(r.value))
    IN  Answered(request(resp))

\* A get that turns every failure of the request into RecordNotFound.
GetExceptAny(r) == Raise("RecordNotFound", <<>>)

\* The except clauses of Collection.get, for the exception r the request
\* raised: NotFound becomes RecordNotFound, anything else is raised again
GetExcept(r) ==
    IF r.exc.type = "NotFound" THEN Raise("RecordNotFound", <<>>) ELSE r

\* Collection.get(rid), fields and noexpand defaulted
get(nm, defn, rid, resp) ==
    LET params == compact(PyDict([fields |-> PyStr(Join(<<",">>, <<>>)),
                                  noexpand |-> None])).value
        sent == <<Sent("get", CollectionPath(nm) \o <<"/", "records", "/">> \o Format(rid),
                       None, params)>>
        Decoded(j) ==
            IF Raised(j) THEN Done(sent, j, defn)
            ELSE Done(sent, RecordInit(j.value).outcome, defn)
        Answered(r) ==
            IF Raised(r) THEN Done(sent, GetExcept(r), defn)
            ELSE Decoded(json(r.value))
    IN  Answered(request(resp))

\* [str(rid) for rid in ids]
StrAll(ids) == [i \in 1..Len(ids) |-> Format(ids[i])]

\* The test `if len(ids)` of Collection.delete, on the joined ids.
HasIds(joined) == Len(joined) > 0

\* Collection.delete(*ids)
delete(nm, defn, ids, resp) ==
    LET Answered(sent, r) ==
            IF Raised(r) THEN Done(sent, r, defn) ELSE Done(sent, Return(None), defn)
        Joined(joined) ==
            IF HasIds(joined)
            THEN Answered(<<Sent("delete",
                                 CollectionPath(nm) \o <<"/", "records", "/">> \o joined,
                                 None, NoParams)>>,
                          request(resp))
            ELSE Done(<<>>, Return(None), defn)
    IN  Joined(Join(<<"/">>, StrAll(ids)))

\* {'id': record.pop('id', None), 'fields': record} for a copy of the record
CreateRow(record) ==
    PyDict([id |-> DictGet(record, "id", None),
            fields |-> PyDict([k \in DOMAIN record.kv \ {"id"} |-> record.kv[k]])])

\* The RecordSet Collection.create builds from the response.
CreateResult(resp) ==
    LET Decoded(j) == IF Raised(j) THEN j ELSE RecordSetInit(j.value)
    IN  IF resp.content.len > 0 THEN Decoded(json(resp))
        ELSE RecordSetInit(PyDict(EmptyKv))

\* Collection.create(*records, update=update, diffuse=diffuse)
create(nm, defn, recs, update, diffuse, resp) ==
    LET rows == [i \in 1..Len(recs) |-> CreateRow(recs[i])]
        options == IF Len(diffuse) > 0 THEN <<"diffuse", "=">> \o diffuse ELSE <<>>
        sent == <<Sent(IF update THEN "put" ELSE "post",
                       CollectionPath(nm) \o <<"/", "records", "?">> \o options,
                       PyDict([records |-> PyList(rows)]), NoParams)>>
        Answered(r) ==
            IF Raised(r) THEN Done(sent, r, defn) ELSE Done(sent, CreateResult(r.value), defn)
    IN  Answered(request(resp))

\* Collection.update(*records)
update(nm, defn, recs, resp) == create(nm, defn, recs, TRUE, <<>>, resp)

CannotUpdate == <<"Cannot", "update", "record", "without", "an", "ID">>

\* An update_or_create that falls back to create whatever the update raised.
FallsBackAlways(exc) == TRUE

\* The test of Collection.update_or_create on the exception the update raised.
FallsBack(exc) == IsInfix(CannotUpdate, exc.msg)

\* Collection.update_or_create(*records); resp answers the update and resp2
\* the create, if one is sent
update_or_create(nm, defn, recs, resp, resp2) ==
    LET Created(u, c) == [c EXCEPT !.sent = u.sent \o c.sent]
        Updated(u) ==
            IF Raised(u.outcome) /\ FallsBack(u.outcome.exc)
            THEN Created(u, create(nm, defn, recs, FALSE, <<>>, resp2))
            ELSE u
    IN  Updated(update(nm, defn, recs, resp))

\* Collection.aggregate(fields, fns, filterstring), fields a list or a scalar
aggregate(nm, defn, fields, fns, filterstring, resp) ==
    LET fl == IF fields = None THEN <<<<"_id">>>>
              ELSE IF IsList(fields) THEN StrAll(fields.items)
              ELSE <<Format(fields)>>
        params == compact(PyDict([fn |-> PyStr(Join(<<",">>, StrAll(fns))),
                                  q |-> filterstring, noexpand |-> None])).value
        sent == <<Sent("get", CollectionPath(nm) \o <<"/", "aggregate", "/">>
                              \o Join(<<",">>, fl), None, params)>>
        Decoded(j) == IF Raised(j) THEN Done(sent, j, defn) ELSE Done(sent, Return(j.value), defn)
        Answered(r) == IF Raised(r) THEN Done(sent, r, defn) ELSE Decoded(json(r.value))
    IN  Answered(request(resp))

---------------------------------------------------------------------------
(* The Collection of a client, driven by its caller and by the service     *)

MaxIds == 2       \* the most ids one delete call is given
MaxRecords == 1   \* the most records one create or update call is given
MaxFetches == 2   \* the most definitions the accessors fetch and store

\* Sequences over S of length at most n
SeqsUpTo(S, n) == UNION {[1..m -> S] : m \in 0..n}

FieldCfgId == PyDict([name |-> PyStr(<<"id">>), type |-> PyStr(<<"int">>),
                      identity |-> PyBool(TRUE)])
FieldCfgName == PyDict([name |-> PyStr(<<"name">>), type |-> PyStr(<<"str">>)])

\* Documents the service answers with.
DefnDoc == PyDict([name |-> PyStr(<<"users">>), fields |-> PyList(<<FieldCfgId, FieldCfgName>>)])
EmptyDoc == PyDict(EmptyKv)
RowDoc == PyDict([id |-> PyInt(1), fields |-> PyDict([a |-> PyStr(<<"x">>)])])
SetDoc == PyDict([result_count |-> PyInt(5), records |-> PyList(<<RowDoc>>)])
ErrCannotUpdate == PyDict([error |-> PyStr(<<"record:">> \o CannotUpdate)])
MsgCannotUpdate == PyDict([message |-> PyStr(CannotUpdate)])

SuccessDocs == {DefnDoc, EmptyDoc, RowDoc, SetDoc}
ErrorDocs == {ErrCannotUpdate, MsgCannotUpdate, EmptyDoc}
OkStatuses == {200}
ErrStatuses == {400, 403, 404, 503}

\* The responses of the service: a success may have an empty body, an error
\* carries a JSON document.
Responses ==
    {Response(st, c) : st \in OkStatuses, c \in {EmptyContent} \cup {Content(d) : d \in SuccessDocs}}
    \cup {Response(st, Content(d)) : st \in ErrStatuses, d \in ErrorDocs}

\* What the caller passes.
CtorName == PyStr(<<"users">>)
SuppliedDefn == PyDict([name |-> PyStr(<<"people">>), fields |-> PyList(<<FieldCfgName>>)])
Rids == {PyInt(1), PyStr(<<"k">>)}
IdValues == {PyInt(1), PyStr(<<>>), PyStr(<<"k">>)}
InputRecords == {PyDict([id |-> PyInt(1), a |-> PyStr(<<"x">>)]), PyDict([a |-> PyStr(<<"y">>)])}
Limits == {None, PyBool(FALSE), PyInt(10)}
Diffuses == {<<>>, <<"true">>}

\* No call is being made.
NoCall == [op |-> "none"]

\* The parts of the state there are when no object of the kind exists.
NoCollection ==
    /\ name = None
    /\ definition = None
    /\ history = [lazy_only |-> TRUE, fetched |-> 0]
NoRecordSet ==
    /\ response = None
    /\ result_count = None
    /\ results_iter = iter(PyList(<<>>))
    /\ yielded = <<>>
NoRecord == row = None /\ rec = None
NoField == field = None

collectionVars == <<name, definition, history>>
recordSetVars == <<response, result_count, results_iter, yielded>>
recordVars == <<row, rec>>

\* Collection(name, client, definition) has been constructed.
Init ==
    /\ \E d \in {None, EmptyDoc, SuppliedDefn} :
          /\ name = CollectionName(CtorName, d)
          /\ definition = d
          /\ history = [lazy_only |-> (d = None), fetched |-> 0]
    /\ call = NoCall
    /\ NoRecordSet /\ NoRecord /\ NoField

\* The operations that read the definition through the lazy accessor.
Accessors == {"definition", "fields", "__str__"}

\* A Collection operation has run. The call is recorded with the requests it
\* sent and the responses the session gave them; the definition is what the
\* operation leaves. (The program is single-threaded: every operation starts
\* when no call is being made.)
Ran(op, args, did, resps) ==
    /\ \E d \in {did} :
          /\ call' = [op |-> op, args |-> args, sent |-> d.sent,
                      answers |-> SubSeq(resps, 1, Len(d.sent)), outcome |-> d.outcome]
          /\ definition' = d.definition
          /\ history' = [lazy_only |-> history.lazy_only /\ op /= "load",
                         fetched |-> IF op \in Accessors /\ d.stored
                                     THEN history.fetched + 1 ELSE history.fetched]
    /\ UNCHANGED <<name, recordSetVars, recordVars, field>>

\* The call returns to its caller (or its exception reaches it).
Returns ==
    /\ call /= NoCall
    /\ call' = NoCall
    /\ UNCHANGED <<collectionVars, recordSetVars, recordVars, field>>

Load ==
    /\ call = NoCall
    /\ \E resp \in Responses : Ran("load", <<>>, load(name, definition, resp), <<resp>>)

Definition ==
    /\ call = NoCall
    /\ history.fetched < MaxFetches
    /\ \E resp \in Responses :
          Ran("definition", <<>>, GetDefinition(name, definition, resp), <<resp>>)

Fields ==
    /\ call = NoCall
    /\ history.fetched < MaxFetches
    /\ \E resp \in Responses :
          Ran("fields", <<>>, GetFields(name, definition, resp), <<resp>>)

StrCollection ==
    /\ call = NoCall
    /\ history.fetched < MaxFetches
    /\ \E resp \in Responses :
          Ran("__str__", <<>>, CollectionStr(name, definition, resp), <<resp>>)

Query ==
    /\ call = NoCall
    /\ \E resp \in Responses, limit \in Limits :
          Ran("query", <<limit>>, query(name, definition, PyStr(<<"all">>), limit, resp),
              <<resp>>)

Get ==
    /\ call = NoCall
    /\ \E resp \in Responses, rid \in Rids :
          Ran("get", <<rid>>, get(name, definition, rid, resp), <<resp>>)

Delete ==
    /\ call = NoCall
    /\ \E resp \in Responses, ids \in SeqsUpTo(IdValues, MaxIds) :
          Ran("delete", ids, delete(name, definition, ids, resp), <<resp>>)

Create ==
    /\ call = NoCall
    /\ \E resp \in Responses, recs \in SeqsUpTo(InputRecords, MaxRecords),
          upd \in BOOLEAN, diffuse \in Diffuses :
          Ran("create", <<PyList(recs), PyBool(upd), PyStr(diffuse)>>,
              create(name, definition, recs, upd, diffuse, resp), <<resp>>)

Update ==
    /\ call = NoCall
    /\ \E resp \in Responses, recs \in SeqsUpTo(InputRecords, MaxRecords) :
          Ran("update", recs, update(name, definition, recs, resp), <<resp>>)

UpdateOrCreate ==
    /\ call = NoCall
    /\ \E resp \in Responses, resp2 \in Responses,
          recs \in SeqsUpTo(InputRecords, MaxRecords) :
          Ran("update_or_create", recs,
              update_or_create(name, definition, recs, resp, resp2), <<resp, resp2>>)

Aggregate ==
    /\ call = NoCall
    /\ \E resp \in Responses, fields \in {None, PyStr(<<"a">>)} :
          Ran("aggregate", <<fields>>,
              aggregate(name, definition, fields, <<PyStr(<<"count">>)>>, None, resp),
              <<resp>>)

Next ==
    \/ Load
    \/ Definition
    \/ Fields
    \/ StrCollection
    \/ Query
    \/ Get
    \/ Delete
    \/ Create
    \/ Update
    \/ UpdateOrCreate
    \/ Aggregate
    \/ Returns

Spec == Init /\ [][Next]_vars

---------------------------------------------------------------------------
(* Client.request, for every status code                                   *)

Statuses == 100..599
Methods == {"get", "POST", "delete"}

\* The responses of the service to one request: any status; a success may
\* have an empty body, an error carries a JSON document.
ClientResponses ==
    {Response(st, Content(d)) : st \in Statuses, d \in {EmptyDoc, ErrCannotUpdate}}
    \cup {Response(st, EmptyContent) : st \in {x \in Statuses : x < 400}}

InitClient ==
    /\ call = NoCall
    /\ NoCollection /\ NoRecordSet /\ NoRecord /\ NoField

ClientRequest ==
    /\ call = NoCall
    /\ \E method \in Methods, resp \in ClientResponses :
          call' = [op |-> "request", args |-> <<method>>,
                   sent |-> <<Sent(method, <<"/", "api", "/", "schema">>, None, NoParams)>>,
                   answers |-> <<resp>>, outcome |-> request(resp)]
    /\ UNCHANGED <<collectionVars, recordSetVars, recordVars, field>>

NextClient ==
    \/ ClientRequest
    \/ Returns

SpecClient == InitClient /\ [][NextClient]_vars

---------------------------------------------------------------------------
(* Field objects                                                           *)

\* An attribute the caller does not pass.
Absent == [t |-> "absent"]

\* The keyword arguments a caller passes to Field: each attribute is absent
\* or has one of these values.
FieldChoices ==
    [name : {Absent, PyStr(<<"x">>)},
     type : {Absent, PyStr(<<"str">>)},
     identity : {Absent, PyBool(TRUE), PyBool(FALSE)},
     key : {Absent, PyBool(TRUE), PyBool(FALSE)},
     required : {Absent, PyBool(TRUE), PyBool(FALSE)},
     default : {Absent, PyInt(0), PyStr(<<"d">>)},
     native_type : {Absent, PyStr(<<"int">>)}]

\* The mapping of the attributes that are passed.
Passed(c) == [k \in {x \in DOMAIN c : c[x] /= Absent} |-> c[k]]

InitField ==
    /\ call = NoCall
    /\ NoCollection /\ NoRecordSet /\ NoRecord /\ NoField

NewField ==
    /\ call = NoCall
    /\ \E c \in FieldChoices :
          \E f \in {FieldInit(Passed(c))} :
              /\ call' = [op |-> "Field", args |-> <<PyDict(Passed(c))>>, outcome |-> f]
              /\ field' = IF Raised(f) THEN field ELSE f.value
    /\ UNCHANGED <<collectionVars, recordSetVars, recordVars>>

AsDict ==
    /\ call = NoCall
    /\ field /= None
    /\ call' = [op |-> "as_dict", args |-> <<>>, outcome |-> Return(as_dict(field))]
    /\ UNCHANGED <<collectionVars, recordSetVars, recordVars, field>>

NextField ==
    \/ NewField
    \/ AsDict
    \/ Returns

SpecField == InitField /\ [][NextField]_vars

---------------------------------------------------------------------------
(* Record objects                                                          *)

MaxDepth == 2   \* how deep mappings nest inside the fields of a raw row

\* Partial mappings from the keys K to the values V, as plain dicts
DictsOver(K, V) == {PyDict(kv) : kv \in UNION {[D -> V] : D \in SUBSET K}}

\* Values that nest no mapping directly: null, a scalar, a list of one mapping.
Leaves == {None, PyInt(0), PyList(<<PyDict([b |-> PyInt(0)])>>)}

\* The values in which mappings nest at most d deep.
RECURSIVE ValuesOfDepth(_)
ValuesOfDepth(d) ==
    IF d = 0 THEN Leaves ELSE Leaves \cup DictsOver({"b"}, ValuesOfDepth(d - 1))

FieldKeys == {"a", "id"}
RowIds == {None, PyInt(7)}

\* The raw rows a Record is built from: {id, fields}, and rows that lack one
\* of the two, whose fields are no mapping, or whose fields have a bytes key.
RawRows ==
    {PyDict([id |-> i, fields |-> f]) :
        i \in RowIds, f \in DictsOver(FieldKeys, ValuesOfDepth(MaxDepth))}
    \cup {PyDict([id |-> PyInt(7)]), PyDict([fields |-> PyDict([a |-> PyInt(0)])]),
          PyDict([id |-> PyInt(7), fields |-> None]),
          PyDict([id |-> PyInt(7), fields |-> PyDict("b'a'" :> PyInt(0))])}

InitRecord ==
    /\ row \in RawRows
    /\ rec = None
    /\ call = NoCall
    /\ NoCollection /\ NoRecordSet /\ NoField

\* Record(row)
NewRecord ==
    /\ call = NoCall
    /\ \E r \in {RecordInit(row)} :
          /\ call' = [op |-> "Record", args |-> <<row>>, outcome |-> r.outcome]
          /\ row' = r.row
          /\ rec' = IF Raised(r.outcome) THEN rec ELSE r.outcome.value
    /\ UNCHANGED <<collectionVars, recordSetVars, field>>

\* Record(record), for a Record
RecordOfRecord ==
    /\ call = NoCall
    /\ rec /= None
    /\ call' = [op |-> "Record", args |-> <<rec>>, outcome |-> RecordInit(rec).outcome]
    /\ UNCHANGED <<collectionVars, recordSetVars, recordVars, field>>

\* record.k1.k2
ReadAttrs ==
    /\ call = NoCall
    /\ rec /= None
    /\ \E k1 \in FieldKeys, k2 \in {"b"} :
          \E first \in {GetAttr(rec, k1)} :
              call' = [op |-> "getattr", args |-> <<k1, k2>>,
                       outcome |-> IF IsDict(first.value) THEN GetAttr(first.value, k2)
                                   ELSE Raise("AttributeError", <<k2>>)]
    /\ UNCHANGED <<collectionVars, recordSetVars, recordVars, field>>

NextRecord ==
    \/ NewRecord
    \/ RecordOfRecord
    \/ ReadAttrs
    \/ Returns

SpecRecord == InitRecord /\ [][NextRecord]_vars

---------------------------------------------------------------------------
(* RecordSet objects                                                       *)

MaxRows == 2   \* the most rows in the page of a response

\* The rows of a page.
PageRows ==
    {PyDict([id |-> PyInt(1), fields |-> PyDict([a |-> PyStr(<<"x">>)])]),
     PyDict([id |-> PyInt(2), fields |-> PyDict([a |-> None, b |-> PyInt(0)])]),
     PyDict([id |-> None, fields |-> PyDict([a |-> PyDict([b |-> PyInt(0)])])])}

ResultCounts == {PyInt(0), PyInt(5)}

\* The responses a RecordSet is built from: the total and the page; the page
\* may be missing or null.
RawResponses ==
    {PyDict([result_count |-> c, records |-> PyList(rows)]) :
        c \in ResultCounts, rows \in SeqsUpTo(PageRows, MaxRows)}
    \cup {PyDict([result_count |-> c]) : c \in ResultCounts}
    \cup {PyDict([result_count |-> c, records |-> None]) : c \in ResultCounts}

\* RecordSet(response) has been constructed.
InitRecordSet ==
    /\ \E resp \in RawResponses :
          \E rs \in {RecordSetInit(resp)} :
              /\ ~Raised(rs)
              /\ response = rs.value.response
              /\ result_count = rs.value._result_count
              /\ results_iter = rs.value._results_iter
    /\ yielded = <<>>
    /\ call = NoCall
    /\ NoCollection /\ NoRecord /\ NoField

\* A read of the RecordSet through RecordSet.records, r: the call has the
\* outcome given, and the response is as the access leaves it.
ReadRecords(op, args, r, outcome) ==
    /\ call' = [op |-> op, args |-> args, outcome |-> outcome]
    /\ response' = r.response
    /\ UNCHANGED <<collectionVars, result_count, results_iter, yielded, recordVars, field>>

\* recordset.result_count
ResultCount ==
    /\ call = NoCall
    /\ call' = [op |-> "result_count", args |-> <<>>, outcome |-> Return(result_count)]
    /\ UNCHANGED <<collectionVars, recordSetVars, recordVars, field>>

\* recordset.records
Records ==
    /\ call = NoCall
    /\ \E r \in {records(response)} :
          ReadRecords("records", <<>>, r, r.outcome)

\* recordset[key]
GetItem ==
    /\ call = NoCall
    /\ \E key \in (0 - MaxRows - 1)..MaxRows, r \in {records(response)} :
          ReadRecords("__getitem__", <<key>>, r,
                      IF Raised(r.outcome) THEN r.outcome
                      ELSE ListGetItem(r.outcome.value, key))

\* len(recordset)
LenRecordSet ==
    /\ call = NoCall
    /\ \E r \in {records(response)} :
          ReadRecords("__len__", <<>>, r,
                      IF Raised(r.outcome) THEN r.outcome ELSE PyLen(r.outcome.value))

\* repr(recordset)
ReprRecordSet ==
    /\ call = NoCall
    /\ \E r \in {records(response)} :
          ReadRecords("__repr__", <<>>, r,
                      IF Raised(r.outcome) THEN r.outcome
                      ELSE Return(PyStr(RecordSetRepr(r.outcome.value.items, result_count))))

\* An __iter__ that returns self without deriving a new iterator.
KeepIter(old, recs) == old

\* The iterator RecordSet.__iter__ stores, given the one it had.
NewIter(old, recs) == iter(recs)

\* iter(recordset)
Iter ==
    /\ call = NoCall
    /\ \E r \in {records(response)} :
          /\ call' = [op |-> "__iter__", args |-> <<>>,
                      outcome |-> IF Raised(r.outcome) THEN r.outcome
                                  ELSE Return([t |-> "self"])]
          /\ response' = r.response
          /\ results_iter' = IF Raised(r.outcome) THEN results_iter
                             ELSE NewIter(results_iter, r.outcome.value)
          /\ yielded' = IF Raised(r.outcome) THEN yielded ELSE <<>>
    /\ UNCHANGED <<collectionVars, result_count, recordVars, field>>

\* next(it) on a list iterator: the outcome and the iterator after it
IterNext(it) ==
    IF it.pos < Len(it.items)
    THEN [outcome |-> Return(it.items[it.pos + 1]), it |-> [it EXCEPT !.pos = it.pos + 1]]
    ELSE [outcome |-> Raise("StopIteration", <<>>), it |-> it]

\* next(recordset)
NextItem ==
    /\ call = NoCall
    /\ \E n \in {IterNext(results_iter)} :
          /\ call' = [op |-> "__next__", args |-> <<>>, outcome |-> n.outcome]
          /\ results_iter' = n.it
          /\ yielded' = IF Raised(n.outcome) THEN yielded
                        ELSE Append(yielded, n.outcome.value)
    /\ UNCHANGED <<collectionVars, response, result_count, recordVars, field>>

NextRecordSet ==
    \/ ResultCount
    \/ Records
    \/ GetItem
    \/ LenRecordSet
    \/ ReprRecordSet
    \/ Iter
    \/ NextItem
    \/ Returns

SpecRecordSet == InitRecordSet /\ [][NextRecordSet]_vars

---------------------------------------------------------------------------
(* Properties of Collection, under Spec                                    *)

\* What Client.request made of the answer to request i of the call being made.
Transport(i) == request(call.answers[i])

\* What the caller of operation op gets for the transport error r: get turns
\* NotFound into RecordNotFound, load and the lazy accessors turn it into
\* CollectionNotFound, every other error is r itself.
Translated(op, r) ==
    IF r.exc.type = "NotFound" /\ op = "get" THEN Raise("RecordNotFound", <<>>)
    ELSE IF r.exc.type = "NotFound" /\ op \in {"load"} \cup Accessors
    THEN Raise("CollectionNotFound", <<>>)
    ELSE r

\* C1 as stated: a transport NotFound reaches the caller of get as
\* RecordNotFound and the caller of load, definition, fields and str() as
\* CollectionNotFound; every transport error of another kind, raised during any
\* Collection operation, is exactly the error the caller gets.
C1_Original ==
    call /= NoCall =>
        \A i \in 1..Len(call.sent) :
            (/\ Raised(Transport(i))
             /\ (Transport(i).exc.type /= "NotFound" \/ call.op \in {"get", "load"} \cup Accessors))
            => call.outcome = Translated(call.op, Transport(i))

\* C1, amended: every transport error raised during a Collection operation
\* reaches the caller (NotFound as RecordNotFound from get, as
\* CollectionNotFound from load and the lazy accessors, unchanged otherwise),
\* except the error of the update request of update_or_create whose message
\* contains 'Cannot update record without an ID': that one, of whatever kind,
\* is replaced by a create request, and the caller gets the create's outcome.
C1_ErrorTranslation ==
    call /= NoCall =>
        \A i \in 1..Len(call.sent) :
            Raised(Transport(i)) =>
                IF /\ call.op = "update_or_create"
                   /\ i = 1
                   /\ IsInfix(CannotUpdate, Transport(i).exc.msg)
                THEN Len(call.sent) = 2
                ELSE call.outcome = Translated(call.op, Transport(i))

\* get was answered 404 and its caller got RecordNotFound.
C1_Witness ==
    /\ call /= NoCall
    /\ call.op = "get"
    /\ call.answers[1].status_code = 404
    /\ call.outcome = Raise("RecordNotFound", <<>>)

\* C2: a Collection built without a definition and never loaded explicitly
\* fetches its definition once: over any accesses to definition, fields and
\* str(), whatever mapping the service returns, at most one access loads the
\* definition from the service; every later one uses the cached value.
C2_FetchOnce == history.lazy_only => history.fetched <= 1

\* C3, the case of the empty body: when the create or update request succeeds
\* and the response has no body, the call returns a RecordSet of zero records
\* and does not raise.
C3_EmptyBodyEmptyRecordSet ==
    (/\ call /= NoCall
     /\ call.op \in {"create", "update"}
     /\ ~Raised(Transport(1))
     /\ call.answers[1].content.len = 0)
    => /\ ~Raised(call.outcome)
       /\ call.outcome.value.t = "RecordSet"
       /\ call.outcome.value._results_iter.items = <<>>

\* C7: update_or_create sends the update (PUT) first; it sends a create (POST)
\* with the same records exactly when the update failed with an error whose
\* message contains 'Cannot update record without an ID', and then its outcome
\* is the create's; otherwise nothing more is sent and the outcome is the
\* update's: its RecordSet, or the error it failed with. At most two requests.
C7_UpdateThenCreate ==
    (call /= NoCall /\ call.op = "update_or_create") =>
        LET u == update(name, definition, call.args, call.answers[1])
            lacksId == Raised(u.outcome) /\ IsInfix(CannotUpdate, u.outcome.exc.msg)
        IN  /\ Len(call.sent) \in {1, 2}
            /\ call.sent[1].method = "put"
            /\ call.sent[1].json.kv["records"].items
                   = [i \in 1..Len(call.args) |-> CreateRow(call.args[i])]
            /\ (Len(call.sent) = 2) <=> lacksId
            /\ lacksId =>
                  /\ call.sent[2].method = "post"
                  /\ call.sent[2].json = call.sent[1].json
                  /\ call.sent[2].path = call.sent[1].path
                  /\ call.outcome
                         = create(name, definition, call.args, FALSE, <<>>, call.answers[2]).outcome
            /\ ~lacksId => call.outcome = u.outcome

\* The update failed for the lack of an id, the create was sent and returned
\* its RecordSet.
C7_Witness ==
    /\ call /= NoCall
    /\ call.op = "update_or_create"
    /\ Len(call.sent) = 2
    /\ Raised(Transport(1))
    /\ ~Raised(call.outcome)
    /\ call.outcome.value.t = "RecordSet"

\* The ids from the i-th on as the path names them: each as str() renders it,
\* a '/' before every id but the first.
RECURSIVE IdsPath(_, _)
IdsPath(ids, i) ==
    IF i > Len(ids) THEN <<>>
    ELSE (IF i > 1 THEN <<"/">> ELSE <<>>) \o Format(ids[i]) \o IdsPath(ids, i + 1)

\* C8: delete with no ids sends nothing and returns; delete with one or more
\* ids, whatever their values, sends exactly one DELETE on
\* /api/collections/{name}/records/{id1}/{id2}/... with the ids in the order
\* of the arguments.
C8_DeleteRequests ==
    (call /= NoCall /\ call.op = "delete") =>
        IF call.args = <<>>
        THEN call.sent = <<>> /\ call.outcome = Return(None)
        ELSE /\ Len(call.sent) = 1
             /\ call.sent[1].method = "delete"
             /\ call.sent[1].path
                    = CollectionPath(name) \o <<"/", "records", "/">> \o IdsPath(call.args, 1)

---------------------------------------------------------------------------
(* Properties of Client.request, under SpecClient                          *)

---------------------------------------------------------------------------
(* Properties of Field, under SpecField                                    *)

\* What every reading of C10 asks of as_dict() for the Field f: name and type,
\* `identity: true` iff identity is set, `required: true` iff required is set,
\* `default` iff a default is present, and no key but these and `key`.
SparseButKey(d, a) ==
    /\ DOMAIN d \subseteq {"name", "type", "identity", "key", "required", "default"}
    /\ {"name", "type"} \subseteq DOMAIN d
    /\ d["name"] = a["name"]
    /\ d["type"] = a["type"]
    /\ ("identity" \in DOMAIN d) <=> Truthy(a["identity"])
    /\ ("required" \in DOMAIN d) <=> Truthy(a["required"])
    /\ ("default" \in DOMAIN d) <=> (a["default"] /= None)
    /\ \A k \in DOMAIN d \cap {"identity", "key", "required"} : d[k] = PyBool(TRUE)
    /\ ("default" \in DOMAIN d) => (d["default"] = a["default"])

\* C10 as stated: as_dict() is the sparse encoding above, with `key: true` iff
\* key is set, also when identity is set with it.
C10_Original ==
    (call /= NoCall /\ call.op = "as_dict") =>
        /\ SparseButKey(call.outcome.value.kv, field.attrs)
        /\ ("key" \in DOMAIN call.outcome.value.kv) <=> Truthy(field.attrs["key"])

\* C10, amended: as_dict() is the sparse encoding above, with `key: true` iff
\* key is set and identity is not: identity takes precedence, and a Field with
\* both set serializes `identity: true` alone.
C10_SparseEncoding ==
    (call /= NoCall /\ call.op = "as_dict") =>
        /\ SparseButKey(call.outcome.value.kv, field.attrs)
        /\ ("key" \in DOMAIN call.outcome.value.kv)
               <=> (Truthy(field.attrs["key"]) /\ ~Truthy(field.attrs["identity"]))

\* as_dict() of a Field with identity, key and required set and a default.
C10_Witness ==
    /\ call /= NoCall
    /\ call.op = "as_dict"
    /\ Truthy(field.attrs["identity"])
    /\ Truthy(field.attrs["key"])
    /\ Truthy(field.attrs["required"])
    /\ field.attrs["default"] = PyInt(0)
    /\ DOMAIN call.outcome.value.kv = {"name", "type", "identity", "required", "default"}

---------------------------------------------------------------------------
(* Properties of Record, under SpecRecord                                  *)

\* Every mapping reachable from v through mapping keys, v included, is a dotdict.
RECURSIVE DeepWrapped(_)
DeepWrapped(v) ==
    IsDict(v) => (IsDotdict(v) /\ \A k \in DOMAIN v.kv : DeepWrapped(v.kv[k]))

\* C4: nested mappings are wrapped at every depth. Every mapping reachable
\* from a Record through mapping keys is a dotdict, and record.k1.k2 on a
\* mapping nested under k1 returns the value nested under k2.
C4_NestedWrapped ==
    /\ rec /= None => DeepWrapped(rec)
    /\ (/\ call /= NoCall
        /\ call.op = "getattr"
        /\ call.args[1] \in DOMAIN rec.kv
        /\ IsDict(rec.kv[call.args[1]]))
       => call.outcome = Return(DictGet(rec.kv[call.args[1]], call.args[2], None))

\* A flat raw row: {id, fields} with the id set and fields a mapping from
\* text keys (as JSON decoding gives them) to scalars.
FlatRow(r) ==
    /\ IsDict(r)
    /\ r.cls = "dict"
    /\ DOMAIN r.kv = {"id", "fields"}
    /\ r.kv["id"] /= None
    /\ IsDict(r.kv["fields"])
    /\ DOMAIN r.kv["fields"].kv \cap DOMAIN BytesKeys = {}
    /\ \A k \in DOMAIN r.kv["fields"].kv : r.kv["fields"].kv[k].t \in {"None", "int", "bool", "str"}

\* C5 as stated: for a flat row r, the keys of Record(r) are id and the keys
\* of r.fields whose value is not null; every null-valued key of r.fields is
\* absent from the Record; every other key of r.fields reads back its value,
\* and id reads back r.id.
C5_Original ==
    (call /= NoCall /\ call.op = "Record" /\ FlatRow(call.args[1])) =>
        LET r == call.args[1].kv
            f == r["fields"].kv
        IN  /\ ~Raised(call.outcome)
            /\ DOMAIN call.outcome.value.kv = {"id"} \cup {k \in DOMAIN f : f[k] /= None}
            /\ \A k \in DOMAIN f :
                  IF f[k] = None THEN k \notin DOMAIN call.outcome.value.kv
                  ELSE GetAttr(call.outcome.value, k) = Return(f[k])
            /\ GetAttr(call.outcome.value, "id") = Return(r["id"])

\* C5, amended: for a flat row r, the keys of Record(r) are id and the keys of
\* r.fields whose value is not null; every null-valued key of r.fields other
\* than id is absent from the Record; every other key of r.fields other than
\* id reads back its value; id reads back r.id, whatever r.fields holds under
\* the key id.
C5_FlatRecord ==
    (call /= NoCall /\ call.op = "Record" /\ FlatRow(call.args[1])) =>
        LET r == call.args[1].kv
            f == r["fields"].kv
        IN  /\ ~Raised(call.outcome)
            /\ IsDotdict(call.outcome.value)
            /\ DOMAIN call.outcome.value.kv = {"id"} \cup {k \in DOMAIN f : f[k] /= None}
            /\ \A k \in DOMAIN f \ {"id"} :
                  IF f[k] = None THEN k \notin DOMAIN call.outcome.value.kv
                  ELSE GetAttr(call.outcome.value, k) = Return(f[k])
            /\ GetAttr(call.outcome.value, "id") = Return(r["id"])

\* A Record was built from a flat row with a field that was kept and reads 0,
\* and with a null value under the key id in its fields.
C5_Witness ==
    /\ call /= NoCall
    /\ call.op = "Record"
    /\ call.args[1] = PyDict([id |-> PyInt(7),
                              fields |-> PyDict([a |-> PyInt(0), id |-> None])])
    /\ call.outcome.value.kv = [a |-> PyInt(0), id |-> PyInt(7)]

\* C11: constructing a Record from a raw row leaves the row, its `fields`
\* mapping included, as it was: after Record(r), whether it returned or
\* raised, the row is equal to the r that was passed.
C11_RowUnchanged ==
    (/\ call /= NoCall
     /\ call.op = "Record"
     /\ IsDict(call.args[1])
     /\ call.args[1].cls = "dict")
    => row = call.args[1]

---------------------------------------------------------------------------
(* Properties of RecordSet, under SpecRecordSet                            *)

\* The Records of the page, as RecordSet.records derives them in this state.
Page == records(response).outcome.value

\* C6: iteration is restartable and bounded. iter() puts the cursor on the
\* first row of the page; what a pass has yielded is always the first rows of
\* the page in response order, each equal to recordset[i] at its position; the
\* pass ends with StopIteration when it has yielded len(recordset) records,
\* whatever result_count says.
C6_IterationRestartable ==
    /\ Len(yielded) <= Len(Page.items)
    /\ \A i \in 1..Len(yielded) :
          /\ yielded[i] = Page.items[i]
          /\ Return(yielded[i]) = ListGetItem(Page, i - 1)
    /\ (call /= NoCall /\ call.op = "__iter__") =>
          /\ ~Raised(call.outcome)
          /\ results_iter = [items |-> Page.items, pos |-> 0]
          /\ yielded = <<>>
    /\ (call /= NoCall /\ call.op = "__next__") =>
          IF Raised(call.outcome)
          THEN /\ call.outcome.exc.type = "StopIteration"
               /\ PyLen(Page) = Return(PyInt(Len(yielded)))
          ELSE /\ call.outcome.value = yielded[Len(yielded)]
               /\ results_iter.pos = Len(yielded)

\* A pass over a page of two rows ended after two records, with a result_count of 5.
C6_Witness ==
    /\ call /= NoCall
    /\ call.op = "__next__"
    /\ Raised(call.outcome)
    /\ Len(yielded) = 2
    /\ yielded[1] /= yielded[2]
    /\ result_count = PyInt(5)

=============================================================================
